---- MODULE Spec2Model ----
(***************************************************************************)
(* Model of the TableEditor component (table-editor.tsx): the remote       *)
(* record mapper, the edit cache (overlay) with its localStorage blob, the *)
(* fetch effect with its cancellation flag, loadMore, the scroll observer, *)
(* updateCell and addNewRow.                                               *)
(*                                                                         *)
(* Every handler runs to completion on the single UI thread, so one action *)
(* is one handler together with the render and the effects that its state  *)
(* updates trigger (persist effect, fetch effect cleanup and re-run).      *)
(***************************************************************************)
EXTENDS Integers, Sequences, FiniteSets, TLC

(***************************************************************************)
(* Bounds of the model.                                                    *)
(***************************************************************************)
MaxTotal == 100      \* largest remote record count tried
MaxFetches == 3      \* fetches issued in one behaviour (the mount fetch included)
MaxNew == 2          \* add-row clicks in one behaviour
MaxLoads == 4        \* loadMore calls counted since the last completed load
MaxClock == 1        \* largest clock state (number of ticks)

(***************************************************************************)
(* Program constants.                                                      *)
(***************************************************************************)
PAGE_SIZE == 40

RANDOM_STATES == <<"CA", "NY", "TX", "FL", "IL", "PA", "OH", "GA", "NC", "MI">>

RANDOM_VERSIONS == <<"new customer", "served", "to contact", "pause">>

\* 24 * 60 * 60 * 1000 milliseconds, in seconds
DAY_SECONDS == 24 * 60 * 60

\* the value null of isError
Null == "<null>"

\* a JavaScript falsy property value (undefined or the empty string)
Absent == ""

Min(a, b) == IF a < b THEN a ELSE b

(***************************************************************************)
(* The clock.  Date.now() is in milliseconds; the model reads it at       *)
(* instants one second apart.  Handlers that run between two ticks read    *)
(* the same value.                                                         *)
(***************************************************************************)
ClockReading(c) == 1000 * c

\* new Date(ms).toISOString().slice(0, 19).replace("T", " "): the instant cut
\* to whole seconds (the text itself is a fixed-width rendering of that number)
FormatDate(ms) == ms \div 1000

(***************************************************************************)
(* The remote data set: RemoteItem(i) is element i (0-based) of the JSON   *)
(* array.  The elements cycle through the shapes the mapper distinguishes. *)
(***************************************************************************)
RemoteItem(i) ==
  LET s == i % 4 IN
  [ guid |-> IF s = 1 THEN "g" \o ToString(i) ELSE Absent,
    id |-> IF s = 0 THEN "r" \o ToString(i) ELSE Absent,
    _id |-> IF s = 2 THEN "u" \o ToString(i) ELSE Absent,
    nameKind |-> IF s = 0 THEN "string" ELSE IF s = 1 THEN "object" ELSE "none",
    name |-> IF s = 0 THEN "N" \o ToString(i) ELSE Absent,
    first |-> IF s = 1 THEN "F" \o ToString(i) ELSE Absent,
    last |-> Absent,
    username |-> IF s = 2 THEN "user" \o ToString(i) ELSE Absent,
    email |-> IF s = 3 /\ i % 8 = 3 THEN "m" \o ToString(i) ELSE Absent,
    bio |-> IF s = 0 THEN "bio" ELSE Absent,
    company |-> IF s = 0 THEN "co" ELSE Absent,
    eyeColor |-> IF s = 1 THEN "blue" ELSE Absent,
    favoriteFruit |-> IF s = 2 THEN "apple" ELSE Absent ]

RemoteJson(n) == [k \in 1..n |-> RemoteItem(k - 1)]

\* a || b
Or(a, b) == IF a # Absent THEN a ELSE b

\* `${first ?? ""} ${last ?? ""}`.trim()
JoinName(first, last) ==
  IF first = Absent THEN last
  ELSE IF last = Absent THEN first
  ELSE first \o " " \o last

mapRemoteToCustomer(item, idx, clock) ==
  [ id |-> Or(item.guid, Or(item.id, Or(item._id, ToString(idx)))),
    name |-> IF item.nameKind = "string" /\ item.name # Absent
               THEN item.name
             ELSE IF item.nameKind = "object"
                     /\ (item.first # Absent \/ item.last # Absent)
               THEN JoinName(item.first, item.last)
             ELSE Or(item.username, Or(item.email, "User " \o ToString(idx))),
    bio |-> Or(item.bio, ""),
    language |-> Or(item.company, Or(item.eyeColor, Or(item.favoriteFruit, ""))),
    state |-> RANDOM_STATES[(idx % Len(RANDOM_STATES)) + 1],
    \* a whole number of days is a whole number of seconds, so taking the days
    \* off before or after cutting to seconds gives the same text
    createdDate |-> FormatDate(ClockReading(clock)) - (idx % 365) * DAY_SECONDS,
    version |-> RANDOM_VERSIONS[(idx % Len(RANDOM_VERSIONS)) + 1],
    isNew |-> FALSE ]

\* json.map(mapRemoteToCustomer)
MapAll(json, clock) ==
  [k \in 1..Len(json) |-> mapRemoteToCustomer(json[k], k - 1, clock)]

\* Array.prototype.slice(from, to) with 0-based, end-exclusive indices
Slice(s, from, to) ==
  IF from >= Min(to, Len(s)) THEN <<>>
  ELSE SubSeq(s, from + 1, Min(to, Len(s)))

(***************************************************************************)
(* The edit cache: a map from row id to a partial field set.               *)
(***************************************************************************)
EmptyCache == <<>>

\* editCache[id] ?? {}
CacheEntry(cache, id) == IF id \in DOMAIN cache THEN cache[id] ELSE <<>>

\* { ...r, ...e }
Spread(r, e) ==
  [f \in (DOMAIN r) \cup (DOMAIN e) |-> IF f \in DOMAIN e THEN e[f] ELSE r[f]]

\* the spread written the other way round: { ...e, ...r }
applyEdits_RowWins(cache, rows) ==
  [k \in 1..Len(rows) |-> Spread(CacheEntry(cache, rows[k].id), rows[k])]

applyEdits(cache, rows) ==
  [k \in 1..Len(rows) |-> Spread(rows[k], CacheEntry(cache, rows[k].id))]

\* a whole-row overwrite: [rowId]: { [key]: value }
MergeEdit_WholeRow(prev, rowId, key, value) ==
  Spread(prev, rowId :> (key :> value))

\* the updater passed to setEditCache in updateCell
MergeEdit(prev, rowId, key, value) ==
  Spread(prev, rowId :> Spread(CacheEntry(prev, rowId), key :> value))

\* the updater passed to setData in updateCell
PatchRows(prev, rowId, key, value) ==
  [k \in 1..Len(prev) |->
     IF prev[k].id = rowId THEN Spread(prev[k], key :> value) ELSE prev[k]]

(***************************************************************************)
(* localStorage under the key "mini-table:edits".  The stored text is      *)
(* modelled by its structure: no item, a text JSON.parse rejects, the text *)
(* "null", or an object whose members are (key, value) pairs in the order  *)
(* they are written.                                                       *)
(***************************************************************************)
\* the value null that JSON.parse("null") returns, kept apart from every
\* mapping by its one key (no row id is that string)
NullCache == (Null :> <<>>)

\* Object.keys(o): the own keys, one after the other
RECURSIVE KeysOf(_)
KeysOf(S) ==
  IF S = {} THEN <<>>
  ELSE LET k == CHOOSE x \in S : TRUE IN <<k>> \o KeysOf(S \ {k})

\* the keys of a member list, and the member that gives a key its value (a
\* repeated key keeps its last value)
MemberKeys(members) == {members[i][1] : i \in DOMAIN members}

LastMember(members, k) ==
  CHOOSE i \in DOMAIN members :
    /\ members[i][1] = k
    /\ \A j \in DOMAIN members : members[j][1] = k => j <= i

\* a string value is written as a string literal and read back from it
StringifyValue(v) == <<"string", v>>
ParseValue(t) == t[2]

\* an entry is written as its members, "field": value, and read back
StringifyEntry(e) ==
  LET keys == KeysOf(DOMAIN e)
  IN [i \in 1..Len(keys) |-> <<keys[i], StringifyValue(e[keys[i]])>>]

ParseEntry(t) ==
  [k \in MemberKeys(t) |-> ParseValue(t[LastMember(t, k)][2])]

\* the members of the whole map, "rowId": entry
StringifyMembers(cache) ==
  LET keys == KeysOf(DOMAIN cache)
  IN [i \in 1..Len(keys) |-> <<keys[i], StringifyEntry(cache[keys[i]])>>]

ParseMembers(members) ==
  [k \in MemberKeys(members) |->
     ParseEntry(members[LastMember(members, k)][2])]

\* every entry written as {} (the fields of the entries are lost)
Stringify_Shallow(cache) ==
  IF cache = NullCache THEN [kind |-> "null", members |-> <<>>]
  ELSE [kind |-> "object",
        members |-> [i \in 1..Len(KeysOf(DOMAIN cache)) |->
                       <<KeysOf(DOMAIN cache)[i], <<>>>>]]

\* JSON.stringify(editCache)
Stringify(cache) ==
  IF cache = NullCache THEN [kind |-> "null", members |-> <<>>]
  ELSE [kind |-> "object", members |-> StringifyMembers(cache)]

\* localStorage.getItem of a key that was never written
NoBlob == [kind |-> "none", members |-> <<>>]

\* a stored text that is not JSON
BrokenBlob == [kind |-> "broken", members |-> <<>>]

\* the useState initializer of editCache:
\*   try { return raw ? JSON.parse(raw) : {} } catch { return {} }
LoadCache(raw) ==
  CASE raw.kind = "none" -> EmptyCache
    [] raw.kind = "broken" -> EmptyCache
    [] raw.kind = "null" -> NullCache
    [] raw.kind = "object" -> ParseMembers(raw.members)

\* blobs a previous session may have left (ids of rows 0 and 40 of the data set)
InitialBlobs ==
  { NoBlob,
    Stringify(("r0" :> [bio |-> "hi", name |-> "Old"])
                @@ ("r40" :> [state |-> "NY"])) }

\* what the key may hold when something else wrote it
StartupBlobs == InitialBlobs \cup {BrokenBlob, Stringify(NullCache)}

(***************************************************************************)
(* The editable cells (columns.tsx).  Values are strings; trimming and the *)
(* pattern test go through them character by character.                   *)
(***************************************************************************)
CellKeys == {"bio", "name", "language", "version", "state"}

\* the column rendered by EditableSelectCell
IsSelect(columnKey) == columnKey = "version"

IsSpace(c) == c = " "

Uppercase ==
  {"A", "B", "C", "D", "E", "F", "G", "H", "I", "J", "K", "L", "M",
   "N", "O", "P", "Q", "R", "S", "T", "U", "V", "W", "X", "Y", "Z"}

\* String.prototype.trim
RECURSIVE TrimStart(_)
TrimStart(s) ==
  IF Len(s) > 0 /\ IsSpace(SubSeq(s, 1, 1))
    THEN TrimStart(SubSeq(s, 2, Len(s)))
    ELSE s

RECURSIVE TrimEnd(_)
TrimEnd(s) ==
  IF Len(s) > 0 /\ IsSpace(SubSeq(s, Len(s), Len(s)))
    THEN TrimEnd(SubSeq(s, 1, Len(s) - 1))
    ELSE s

Trim(s) == TrimEnd(TrimStart(s))

\* /^[A-Z]{2}$/.test(s)
TwoUppercase(s) ==
  /\ Len(s) = 2
  /\ SubSeq(s, 1, 1) \in Uppercase
  /\ SubSeq(s, 2, 2) \in Uppercase

\* the tests made on the value as typed, without .trim()
Validate_Untrimmed(columnKey, value) ==
  CASE columnKey \in {"name", "language"} -> Len(value) > 0
    [] columnKey = "state" -> TwoUppercase(value)
    [] columnKey = "bio" -> TRUE
    [] IsSelect(columnKey) -> TRUE

\* the validate prop of the column (`validate ? validate(value) : true`); the
\* select cell commits without a test
Validate(columnKey, value) ==
  CASE columnKey \in {"name", "language"} -> Len(Trim(value)) > 0
    [] columnKey = "state" -> TwoUppercase(Trim(value))
    [] columnKey = "bio" -> TRUE
    [] IsSelect(columnKey) -> TRUE

\* errorMessage || "Invalid value"
ErrorMessage(columnKey) ==
  CASE columnKey = "name" -> "Name is required"
    [] columnKey = "language" -> "Language is required"
    [] columnKey = "state" -> "Use 2 uppercase letters"
    [] OTHER -> "Invalid value"

\* the texts typed into the input, and the options picked in the select
Candidates(columnKey) ==
  CASE columnKey = "bio" -> {""}
    [] columnKey = "name" -> {" Ann", "  "}
    [] columnKey = "language" -> {"Go", ""}
    [] columnKey = "version" -> {"served"}
    [] columnKey = "state" -> {" CA ", "ca", "CAL"}

\* no cell has been activated (every cell shows its row's value)
NoCell ==
  [rowId |-> "", columnKey |-> "", value |-> "", editing |-> FALSE,
   error |-> ""]

HasRow(rows, rowId) == \E k \in 1..Len(rows) : rows[k].id = rowId

\* row.getValue(columnKey) of the row the cell belongs to
InitialValue(rows, c) ==
  LET k == CHOOSE j \in 1..Len(rows) :
             /\ rows[j].id = c.rowId
             /\ \A i \in 1..(j - 1) : rows[i].id # c.rowId
  IN rows[k][c.columnKey]

\* the cell after its parent rendered `rows` with error flag `err`: unmounted
\* with the grid or with its row, else useEffect(() => setValue(initialValue),
\* [initialValue]) when the row's value changed
SyncCell(c, prevRows, rows, err) ==
  IF c = NoCell THEN NoCell
  ELSE IF err # Null \/ ~HasRow(rows, c.rowId) THEN NoCell
  ELSE IF InitialValue(rows, c) # InitialValue(prevRows, c)
    THEN [c EXCEPT !.value = InitialValue(rows, c)]
  ELSE c

\* onClick={() => setEditing(true)} on the display of a cell
Activated(rows, p, columnKey) ==
  [rowId |-> rows[p].id, columnKey |-> columnKey, value |-> rows[p][columnKey],
   editing |-> TRUE, error |-> ""]

\* the rejected commit leaving the input: setEditing(false) before the return
CommitRejected_ClosesCell(c) ==
  [c EXCEPT !.error = ErrorMessage(c.columnKey), !.editing = FALSE]

\* commit: if (!ok) { setError(errorMessage || "Invalid value"); return; }
CommitRejected(c) == [c EXCEPT !.error = ErrorMessage(c.columnKey)]

\* commit: setError(""); updateCell(rowId, columnKey, value); setEditing(false)
CommitAccepted(c) == [c EXCEPT !.error = "", !.editing = FALSE]

\* cancel without setValue: the typed text stays in the cell
Cancelled_KeepsInput(c, rows) ==
  [c EXCEPT !.error = "", !.editing = FALSE]

\* cancel: setValue(String(initialValue ?? "")); setError(""); setEditing(false)
Cancelled(c, rows) ==
  [c EXCEPT !.value = InitialValue(rows, c), !.error = "", !.editing = FALSE]

(***************************************************************************)
(* State.                                                                  *)
(***************************************************************************)
VARIABLES
  now,          \* clock state: Date.now() = ClockReading(now)
  total,        \* length of the array the remote URL serves
  storage,      \* localStorage["mini-table:edits"]
  editCache,    \* useState editCache
  allRows,      \* useState allRows (the Full Record Set)
  data,         \* useState data (the Visible Page)
  isLoading,    \* useState isLoading
  isError,      \* useState isError
  hasMore,      \* useState hasMore
  fetches,      \* the fetchData calls still awaiting, with their closures
  fetchCount,   \* number of fetch() calls issued so far
  writes,       \* number of setAllRows calls so far
  addCount,     \* number of addNewRow calls so far
  loadCalls,    \* loadMore calls since the last completed load
  lastSet,      \* (rowId, field) -> the last value updateCell was given
  cell          \* useState value, editing, error of the cell last activated

vars == <<now, total, storage, editCache, allRows, data, isLoading, isError,
          hasMore, fetches, fetchCount, writes, addCount, loadCalls, lastSet,
          cell>>

Totals == {0, PAGE_SIZE, PAGE_SIZE + 1, MaxTotal}

\* a remote array of two records is enough to have cells to edit
CellTotals == {2}

\* json.map(mapRemoteToCustomer) for an array of n records mapped at clock
\* state c, tabulated
MappedAt ==
  [n \in Totals \cup CellTotals |->
     [c \in 0..MaxClock |-> MapAll(RemoteJson(n), c)]]

\* fetchData up to its first await: setIsLoading(true); setIsError(null); fetch(url)
NewFetch(n, cache) ==
  [id |-> n, cancelled |-> FALSE, applyEdits |-> cache]

\* the state after the first render and its effects (persist, fetch, observer)
Init ==
  /\ now = 0
  /\ total \in Totals
  /\ \E blob \in InitialBlobs :
       /\ editCache = LoadCache(blob)
       /\ storage = Stringify(LoadCache(blob))
       /\ fetches = {NewFetch(1, LoadCache(blob))}
  /\ allRows = <<>>
  /\ data = <<>>
  /\ isLoading = TRUE
  /\ isError = Null
  /\ hasMore = TRUE
  /\ fetchCount = 1
  /\ writes = 0
  /\ addCount = 0
  /\ loadCalls = 0
  /\ lastSet = <<>>
  /\ cell = NoCell

(***************************************************************************)
(* Time passes.                                                            *)
(***************************************************************************)
Tick ==
  /\ now < MaxClock
  /\ now' = now + 1
  /\ UNCHANGED <<total, storage, editCache, allRows, data, isLoading, isError,
                 hasMore, fetches, fetchCount, writes, addCount, loadCalls,
                 lastSet, cell>>

(***************************************************************************)
(* fetchData after its awaits.  Nothing reads or writes the component      *)
(* between `await fetch(...)` and `await res.json()`, so the two awaits    *)
(* are one step: the call settles with the parsed array ("ok"), with a     *)
(* non-2xx status ("status"), or with fetch() or res.json() throwing       *)
(* ("exception").                                                          *)
(***************************************************************************)
FetchOutcomes == {"ok", "status", "exception"}

\* catch (e) { setIsError(e?.message ?? ...) } finally { if (!cancelled) setIsLoading(false) }
FetchThrows(f, message) ==
  /\ isError' = message
  /\ isLoading' = IF f.cancelled THEN isLoading ELSE FALSE
  /\ fetches' = fetches \ {f}
  /\ cell' = SyncCell(cell, data, data, message)
  /\ UNCHANGED <<now, total, storage, editCache, allRows, data, hasMore,
                 fetchCount, writes, addCount, loadCalls, lastSet>>

\* if (cancelled) return;  (the finally block then skips setIsLoading)
FetchDiscarded(f) ==
  /\ fetches' = fetches \ {f}
  /\ UNCHANGED <<now, total, storage, editCache, allRows, data, isLoading,
                 isError, hasMore, fetchCount, writes, addCount, loadCalls,
                 lastSet, cell>>

\* editCache[r.id] on the first row throws a TypeError when editCache is null
\* (rows.map calls nothing for an empty list)
ApplyEditsThrows(cache, rows) == cache = NullCache /\ Len(rows) > 0

TypeErrorMessage == "Cannot read properties of null"

\* the body of the try block after the cancelled check, and the finally block;
\* when applyEdits throws, setAllRows has been called and the catch block runs
FetchStores(f) ==
  LET mapped == MappedAt[total][now]
      first == Slice(mapped, 0, PAGE_SIZE)
  IN /\ allRows' = mapped
     /\ IF ApplyEditsThrows(f.applyEdits, first)
          THEN /\ isError' = TypeErrorMessage
               /\ UNCHANGED <<data, hasMore>>
          ELSE /\ data' = applyEdits(f.applyEdits, first)
               /\ hasMore' = (Len(mapped) > PAGE_SIZE)
               /\ UNCHANGED isError
     /\ isLoading' = FALSE
     /\ fetches' = fetches \ {f}
     /\ writes' = writes + 1
     /\ loadCalls' = 0
     /\ cell' = SyncCell(cell, data, data', isError')
     /\ UNCHANGED <<now, total, storage, editCache, fetchCount, addCount,
                    lastSet>>

FetchSettled(f, outcome) ==
  /\ f \in fetches
  /\ CASE outcome = "status" -> FetchThrows(f, "HTTP 500")
       [] outcome = "exception" -> FetchThrows(f, "Failed to fetch")
       [] outcome = "ok" /\ f.cancelled -> FetchDiscarded(f)
       [] outcome = "ok" /\ ~f.cancelled -> FetchStores(f)

(***************************************************************************)
(* loadMore.                                                               *)
(***************************************************************************)
NextSlice(prev, rows) == Slice(rows, Len(prev), Len(prev) + PAGE_SIZE)

LoadMoreData(prev, rows, cache) ==
  IF Len(NextSlice(prev, rows)) = 0 THEN prev
  ELSE prev \o applyEdits(cache, NextSlice(prev, rows))

\* `>` written for `>=`
LoadMoreHasMore_Strict(prev, rows, cache, more) ==
  IF Len(NextSlice(prev, rows)) # 0
     /\ Len(LoadMoreData(prev, rows, cache)) > Len(rows)
  THEN FALSE ELSE more

\* the length test made before the early return on an empty slice
LoadMoreHasMore_NoEarlyReturn(prev, rows, cache, more) ==
  IF Len(LoadMoreData(prev, rows, cache)) >= Len(rows) THEN FALSE ELSE more

LoadMoreHasMore(prev, rows, cache, more) ==
  IF Len(NextSlice(prev, rows)) # 0
     /\ Len(LoadMoreData(prev, rows, cache)) >= Len(rows)
  THEN FALSE ELSE more

loadMore ==
  /\ loadCalls < MaxLoads
  /\ data' = LoadMoreData(data, allRows, editCache)
  /\ hasMore' = LoadMoreHasMore(data, allRows, editCache, hasMore)
  /\ isLoading' = FALSE
  /\ loadCalls' = loadCalls + 1
  /\ UNCHANGED <<now, total, storage, editCache, allRows, isError, fetches,
                 fetchCount, writes, addCount, lastSet, cell>>

\* the test without `!isLoading`
ObserverGuard_IgnoresLoading(isIntersecting) ==
  isIntersecting /\ hasMore /\ isError = Null

\* the IntersectionObserver callback (threshold 1: the entry reports the
\* sentinel wholly inside the scroll container)
ObserverGuard(isIntersecting) ==
  isIntersecting /\ hasMore /\ ~isLoading /\ isError = Null

ObserverCallback(isIntersecting) ==
  /\ ObserverGuard(isIntersecting)
  /\ loadMore

(***************************************************************************)
(* updateCell, followed by the effects of the new editCache: the persist   *)
(* effect, and the fetch effect (its dependency applyEdits is rebuilt for  *)
(* every new editCache): the cleanup cancels the running fetchData and the *)
(* effect body calls fetchData again.                                      *)
(***************************************************************************)
Cancel(fs) == {[f EXCEPT !.cancelled = TRUE] : f \in fs}

updateCell(rowId, key, value) ==
  /\ fetchCount < MaxFetches
  /\ editCache' = MergeEdit(editCache, rowId, key, value)
  /\ data' = PatchRows(data, rowId, key, value)
  /\ storage' = Stringify(editCache')
  /\ isLoading' = TRUE
  /\ isError' = Null
  /\ fetches' = Cancel(fetches) \cup {NewFetch(fetchCount + 1, editCache')}
  /\ fetchCount' = fetchCount + 1
  /\ lastSet' = Spread(lastSet, <<rowId, key>> :> value)
  /\ UNCHANGED <<now, total, allRows, hasMore, writes, addCount, loadCalls>>

\* the cells a commit comes from: a rendered row (the grid is replaced by the
\* error message while isError is set) and an editable column.  CommitCell is
\* a whole edit of a cell taken at once (activate, type an accepted value,
\* Enter); the handlers of a cell are taken one by one further down
EditKeys == {"name", "state"}

\* the text typed into the cell of that column
EditValue(key) == IF key = "state" THEN "TX" ELSE "Ann"

EditPositions == {1, Len(data)} \cap (1..Len(data))

CommitCell ==
  /\ isError = Null
  /\ \E p \in EditPositions, key \in EditKeys :
       updateCell(data[p].id, key, EditValue(key))
  /\ UNCHANGED cell

(***************************************************************************)
(* addNewRow.                                                              *)
(***************************************************************************)
NewRow(clock) ==
  [ id |-> "new-" \o ToString(ClockReading(clock)),
    bio |-> "",
    name |-> "",
    language |-> "",
    version |-> "new customer",
    state |-> "",
    createdDate |-> FormatDate(ClockReading(clock)),
    isNew |-> TRUE ]

addNewRow ==
  /\ addCount < MaxNew
  /\ data' = <<NewRow(now)>> \o data
  /\ addCount' = addCount + 1
  /\ UNCHANGED <<now, total, storage, editCache, allRows, isLoading, isError,
                 hasMore, fetches, fetchCount, writes, loadCalls, lastSet,
                 cell>>

(***************************************************************************)
(* The component as it runs in the page.                                   *)
(***************************************************************************)
Next ==
  \/ Tick
  \/ \E f \in fetches, outcome \in FetchOutcomes : FetchSettled(f, outcome)
  \/ \E isIntersecting \in BOOLEAN : ObserverCallback(isIntersecting)
  \/ CommitCell
  \/ addNewRow

Spec == Init /\ [][Next]_vars

(***************************************************************************)
(* The pagination window driven through its operations directly: the first *)
(* page load, add-row, and loadMore called whatever the flags are (as a    *)
(* caller of loadNextPage would, and as the observer cannot).              *)
(***************************************************************************)
NextApi ==
  \/ Tick
  \/ \E f \in fetches, outcome \in FetchOutcomes : FetchSettled(f, outcome)
  \/ loadMore
  \/ addNewRow

SpecApi == Init /\ [][NextApi]_vars

(***************************************************************************)
(* The grid loaded, scrolled and edited: the sessions in which no row is   *)
(* added and all handlers read the same clock value.                       *)
(***************************************************************************)
NextEdit ==
  \/ \E f \in fetches, outcome \in FetchOutcomes : FetchSettled(f, outcome)
  \/ \E isIntersecting \in BOOLEAN : ObserverCallback(isIntersecting)
  \/ CommitCell

SpecEdit == Init /\ [][NextEdit]_vars

(***************************************************************************)
(* The component mounted over whatever the storage key holds, then loaded, *)
(* scrolled and given new rows; no cell is edited.                         *)
(***************************************************************************)
InitBoot ==
  /\ now = 0
  /\ total \in Totals
  /\ \E blob \in StartupBlobs :
       /\ editCache = LoadCache(blob)
       /\ storage = Stringify(LoadCache(blob))
       /\ fetches = {NewFetch(1, LoadCache(blob))}
  /\ allRows = <<>>
  /\ data = <<>>
  /\ isLoading = TRUE
  /\ isError = Null
  /\ hasMore = TRUE
  /\ fetchCount = 1
  /\ writes = 0
  /\ addCount = 0
  /\ loadCalls = 0
  /\ lastSet = <<>>
  /\ cell = NoCell

NextBoot ==
  \/ Tick
  \/ \E f \in fetches, outcome \in FetchOutcomes : FetchSettled(f, outcome)
  \/ \E isIntersecting \in BOOLEAN : ObserverCallback(isIntersecting)
  \/ addNewRow

SpecBoot == InitBoot /\ [][NextBoot]_vars

(***************************************************************************)
(* The handlers of a cell.                                                 *)
(***************************************************************************)
\* the rows whose cells are activated
CellPositions == {1} \cap (1..Len(data))

StartEdit(p, columnKey) ==
  /\ isError = Null
  /\ ~cell.editing
  /\ p \in CellPositions
  /\ cell' = Activated(data, p, columnKey)
  /\ UNCHANGED <<now, total, storage, editCache, allRows, data, isLoading,
                 isError, hasMore, fetches, fetchCount, writes, addCount,
                 loadCalls, lastSet>>

\* onChange={(e) => setValue(e.target.value)}
ChangeInput(value) ==
  /\ cell.editing
  /\ value \in Candidates(cell.columnKey)
  /\ cell' = [cell EXCEPT !.value = value]
  /\ UNCHANGED <<now, total, storage, editCache, allRows, data, isLoading,
                 isError, hasMore, fetches, fetchCount, writes, addCount,
                 loadCalls, lastSet>>

\* onBlur, or the Enter key
commit ==
  /\ cell.editing
  /\ IF Validate(cell.columnKey, cell.value)
       THEN /\ updateCell(cell.rowId, cell.columnKey, cell.value)
            /\ cell' = CommitAccepted(cell)
       ELSE /\ cell' = CommitRejected(cell)
            /\ UNCHANGED <<now, total, storage, editCache, allRows, data,
                           isLoading, isError, hasMore, fetches, fetchCount,
                           writes, addCount, loadCalls, lastSet>>

\* the Escape key
cancel ==
  /\ cell.editing
  /\ cell' = Cancelled(cell, data)
  /\ UNCHANGED <<now, total, storage, editCache, allRows, data, isLoading,
                 isError, hasMore, fetches, fetchCount, writes, addCount,
                 loadCalls, lastSet>>

(***************************************************************************)
(* The grid loaded and its cells edited by hand: activate, type, commit or *)
(* cancel, while the fetches the commits issue settle.                     *)
(***************************************************************************)
InitCell ==
  /\ now = 0
  /\ total \in CellTotals
  /\ \E blob \in InitialBlobs :
       /\ editCache = LoadCache(blob)
       /\ storage = Stringify(LoadCache(blob))
       /\ fetches = {NewFetch(1, LoadCache(blob))}
  /\ allRows = <<>>
  /\ data = <<>>
  /\ isLoading = TRUE
  /\ isError = Null
  /\ hasMore = TRUE
  /\ fetchCount = 1
  /\ writes = 0
  /\ addCount = 0
  /\ loadCalls = 0
  /\ lastSet = <<>>
  /\ cell = NoCell

NextCell ==
  \/ \E f \in fetches, outcome \in FetchOutcomes : FetchSettled(f, outcome)
  \/ \E p \in CellPositions, columnKey \in CellKeys : StartEdit(p, columnKey)
  \/ \E value \in UNION {Candidates(k) : k \in CellKeys} : ChangeInput(value)
  \/ commit
  \/ cancel

SpecCell == InitCell /\ [][NextCell]_vars

TypeOK ==
  /\ now \in 0..MaxClock
  /\ total \in Totals \cup CellTotals
  /\ isLoading \in BOOLEAN
  /\ hasMore \in BOOLEAN
  /\ fetchCount \in 1..MaxFetches
  /\ writes \in 0..fetchCount
  /\ addCount \in 0..MaxNew
  /\ loadCalls \in 0..MaxLoads
  /\ Len(data) <= Len(allRows) + MaxNew
  /\ \A f \in fetches : f.id \in 1..fetchCount
  /\ cell.editing \in BOOLEAN
  /\ cell.columnKey \in CellKeys \cup {""}

\* the fetchData call that is not cancelled was issued with the current editCache
LiveFetchIsCurrent ==
  \A f \in fetches : ~f.cancelled => f.id = fetchCount /\ f.applyEdits = editCache

Ids(rows) == [k \in 1..Len(rows) |-> rows[k].id]

(***************************************************************************)
(* C1.  The Visible Page is the locally created rows followed by a prefix  *)
(* of the Full Record Set in its original order: some number k of leading  *)
(* rows are locally created, and the rows after them are records 1, 2, ... *)
(* of allRows with none skipped and none repeated.                         *)
(* The code takes the next slice at offset data.length, which counts the   *)
(* locally created rows, so it skips one record per added row.             *)
(***************************************************************************)
C1_NewRowsThenPrefix ==
  \E k \in 0..Len(data) :
    /\ \A i \in 1..k : data[i].isNew
    /\ Len(data) - k <= Len(allRows)
    /\ \A i \in 1..(Len(data) - k) : data[k + i].id = allRows[i].id

(***************************************************************************)
(* C2.  The Full Record Set is fetched once and written once: no more than *)
(* one fetch() call is issued and allRows is set no more than once.        *)
(* The code re-runs the fetch effect for every new editCache.              *)
(***************************************************************************)
C2_FetchedAndWrittenOnce == fetchCount <= 1 /\ writes <= 1

(***************************************************************************)
(* C3.  A commit changes only the given field of the rows with that id,    *)
(* and when the effects it triggered settle (the fetch issued by the       *)
(* commit stores its result) the Visible Page has the same sequence of row *)
(* ids as before, so its length does not decrease.                         *)
(* The code replaces the Visible Page by the first page at that point.     *)
(***************************************************************************)
CommitStep == fetchCount' = fetchCount + 1

RefetchStoresStep == writes' = writes + 1 /\ fetchCount > 1

C3_CommitKeepsRows ==
  [][ /\ CommitStep =>
           /\ Ids(data') = Ids(data)
           /\ \A i \in 1..Len(data) : \A g \in DOMAIN data[i] :
                data'[i][g] # data[i][g] =>
                  \E rk \in DOMAIN lastSet' :
                    rk = <<data[i].id, g>> /\ lastSet'[rk] = data'[i][g]
      /\ RefetchStoresStep =>
           /\ Ids(data') = Ids(data)
           /\ Len(data') >= Len(data) ]_vars

(***************************************************************************)
(* C4.  Every row of the Visible Page reflects the overlay: each field the *)
(* edit cache holds for the id of a visible row has the cached value in    *)
(* that row.                                                               *)
(* addNewRow builds the id from the clock alone, so a row added at the     *)
(* clock value of an earlier, edited row gets that row's id and the edit   *)
(* cache entry that goes with it, while its own fields are empty.          *)
(***************************************************************************)
C4_VisibleReflectsOverlay ==
  \A i \in 1..Len(data) :
    \A g \in DOMAIN CacheEntry(editCache, data[i].id) :
      data[i][g] = editCache[data[i].id][g]

(***************************************************************************)
(* C5.  With no locally created row, after a completed load and n further  *)
(* loadMore calls the Visible Page has min((n + 1) * PAGE_SIZE, total)     *)
(* rows, and hasMore is true exactly while that is fewer than the total.   *)
(***************************************************************************)
C5_PageLength ==
  (writes >= 1 /\ addCount = 0) =>
    /\ Len(data) = Min((loadCalls + 1) * PAGE_SIZE, Len(allRows))
    /\ hasMore <=> (Len(data) < Len(allRows))

\* 100 records: 40, 80, 100 and a further call that leaves 100 and hasMore false
C5_Witness ==
  /\ writes >= 1 /\ addCount = 0
  /\ Len(allRows) = MaxTotal
  /\ loadCalls = 3
  /\ Len(data) = MaxTotal
  /\ ~hasMore

(***************************************************************************)
(* C6.  After a successful first load, hasMore is never left true when the *)
(* next slice is empty: while hasMore holds, loadMore has a record to      *)
(* append.                                                                 *)
(* The slice offset counts locally created rows, so with 41 records and    *)
(* one added row the slice at offset 41 is empty while hasMore is true.    *)
(***************************************************************************)
C6_HasMoreMeansNextSlice ==
  (writes >= 1 /\ hasMore) => Len(NextSlice(data, allRows)) > 0

(***************************************************************************)
(* C7.  loadMore called when the next slice is empty changes neither the   *)
(* Visible Page, hasMore, the edit cache nor the Full Record Set, and the  *)
(* loading flag is false after it.                                         *)
(***************************************************************************)
LoadMoreStep == loadCalls' = loadCalls + 1

C7_EmptySliceIsNoOp ==
  [][ (LoadMoreStep /\ Len(NextSlice(data, allRows)) = 0) =>
        /\ data' = data
        /\ hasMore' = hasMore
        /\ editCache' = editCache
        /\ storage' = storage
        /\ allRows' = allRows
        /\ ~isLoading' ]_vars

\* loadMore was called on a loaded window whose next slice was empty while
\* hasMore was still true (41 records and one added row)
C7_Witness ==
  /\ writes >= 1
  /\ loadCalls >= 1
  /\ hasMore
  /\ Len(data) = Len(allRows)
  /\ Len(NextSlice(data, allRows)) = 0

(***************************************************************************)
(* C8.  Overlay writes merge at field level: every (row, field) that       *)
(* updateCell has set holds the last value set for it, and a step never    *)
(* removes a row entry or a field of an entry, nor changes the value of a  *)
(* field other than the one being set.                                     *)
(***************************************************************************)
LastValueHeld ==
  \A rk \in DOMAIN lastSet :
    /\ rk[1] \in DOMAIN editCache
    /\ rk[2] \in DOMAIN editCache[rk[1]]
    /\ editCache[rk[1]][rk[2]] = lastSet[rk]

FieldsKept ==
  \A r \in DOMAIN editCache :
    /\ r \in DOMAIN editCache'
    /\ \A g \in DOMAIN editCache[r] :
         /\ g \in DOMAIN editCache'[r]
         /\ \/ editCache'[r][g] = editCache[r][g]
            \/ /\ <<r, g>> \in DOMAIN lastSet'
               /\ lastSet'[<<r, g>>] = editCache'[r][g]
               /\ CommitStep

C8_FieldLevelMerge == []LastValueHeld /\ [][FieldsKept]_vars

\* two different fields were set, one after the other, on a row whose entry
\* held a third field from the stored mapping, next to another row's entry
C8_Witness ==
  \E rk \in DOMAIN lastSet, rl \in DOMAIN lastSet :
    /\ rk[1] = rl[1]
    /\ rk[2] # rl[2]
    /\ rk[1] \in DOMAIN editCache
    /\ \E g \in DOMAIN editCache[rk[1]] : <<rk[1], g>> \notin DOMAIN lastSet
    /\ \E r \in DOMAIN editCache : r # rk[1]

(***************************************************************************)
(* C9.  A fetch that settles after it was cancelled updates no state: the  *)
(* error flag, the loading flag, the Full Record Set, the Visible Page and *)
(* hasMore are as before.                                                  *)
(* The catch block calls setIsError without looking at `cancelled`.        *)
(***************************************************************************)
CancelledFetchSettles == \E f \in fetches : f.cancelled /\ f \notin fetches'

C9_CancelledFetchIsSilent ==
  [][ CancelledFetchSettles =>
        UNCHANGED <<isError, isLoading, allRows, data, hasMore>> ]_vars

(***************************************************************************)
(* C10.  When the fetch in charge (the one not cancelled) fails, the error *)
(* message is set, the loading flag is false, the Visible Page is empty    *)
(* and hasMore has its default, true.                                      *)
(* The catch and finally blocks leave data and hasMore as they are: the    *)
(* rows and the flag of the previous load stay when a re-issued fetch      *)
(* fails.                                                                  *)
(***************************************************************************)
LiveFetchFails ==
  /\ \E f \in fetches : ~f.cancelled /\ \A g \in fetches' : g.id # f.id
  /\ writes' = writes

C10_FailedFetchLeavesNothing ==
  [][ LiveFetchFails =>
        /\ isError' # Null
        /\ ~isLoading'
        /\ data' = <<>>
        /\ hasMore' = TRUE ]_vars

(***************************************************************************)
(* C11.  Whatever the storage key holds at startup, the edit cache is the  *)
(* stored mapping or the empty map, and no error comes of it: the error    *)
(* shown is never the TypeError of a merge over the cache.                 *)
(* JSON.parse("null") returns null without throwing, so the edit cache is  *)
(* null, and applyEdits throws on the first row of the first page; the     *)
(* catch block of fetchData shows that error in place of the grid.         *)
(***************************************************************************)
StoredMappings ==
  {LoadCache(b) : b \in {c \in StartupBlobs : c.kind = "object"}}

C11_StartupBlobIsHarmless ==
  /\ editCache \in StoredMappings \cup {EmptyCache}
  /\ isError # TypeErrorMessage

\* loadMore never merges over a null edit cache in these sessions: the error
\* set by the first load keeps the observer from calling it
NullCacheNeverPaged ==
  editCache = NullCache => Len(NextSlice(data, allRows)) = 0 \/ isError # Null

(***************************************************************************)
(* C12.  The stored blob is always the serialization of the whole edit     *)
(* cache, so the cache a reload would read from the storage equals the     *)
(* cache in memory, after any sequence of commits.                         *)
(***************************************************************************)
C12_StorageIsWholeOverlay ==
  /\ storage = Stringify(editCache)
  /\ LoadCache(storage) = editCache

\* two commits, on two rows, over the entries of a stored mapping
C12_Witness ==
  /\ fetchCount >= 3
  /\ storage.kind = "object"
  /\ Len(storage.members) >= 3
  /\ \E rk \in DOMAIN lastSet, rl \in DOMAIN lastSet : rk[1] # rl[1]

(***************************************************************************)
(* C13.  Every loadMore call of the observer is made from a callback whose *)
(* entry reports the sentinel visible, with isLoading false, isError null  *)
(* and hasMore true at the call, and with no fetch in charge (not          *)
(* cancelled) still awaiting; and one callback makes at most one call.     *)
(***************************************************************************)
NoLiveFetch == \A f \in fetches : f.cancelled

C13_LoaderGuard ==
  [][ /\ loadCalls' <= loadCalls + 1
      /\ LoadMoreStep =>
           /\ hasMore
           /\ ~isLoading
           /\ isError = Null
           /\ NoLiveFetch
           /\ writes >= 1
           /\ \E isIntersecting \in {TRUE} : ObserverCallback(isIntersecting) ]_vars

\* the observer has appended a page after a commit and its fetch settled
C13_Witness ==
  /\ loadCalls >= 1
  /\ fetchCount >= 2
  /\ Len(data) > PAGE_SIZE
  /\ NoLiveFetch

(***************************************************************************)
(* C14.  A commit attempt on a value the validator of the column rejects   *)
(* leaves the cell editing, with the column's message shown and the typed  *)
(* value still in the input, and changes neither the edit cache, the       *)
(* stored blob nor the Visible Page.                                       *)
(***************************************************************************)
C14_RejectedCommitKeepsEditing ==
  [][ (commit /\ ~Validate(cell.columnKey, cell.value)) =>
        /\ cell'.editing
        /\ cell'.error # ""
        /\ cell'.error = ErrorMessage(cell.columnKey)
        /\ cell'.value = cell.value
        /\ editCache' = editCache
        /\ storage' = storage
        /\ data' = data ]_vars

\* after an earlier commit on the row, a cell shows its message over an input
\* that holds a rejected text
C14_Witness ==
  /\ cell.editing
  /\ cell.error # ""
  /\ ~Validate(cell.columnKey, cell.value)
  /\ cell.value \in Candidates(cell.columnKey)
  /\ cell.rowId \in DOMAIN editCache
  /\ \E rk \in DOMAIN lastSet : rk[1] = cell.rowId

(***************************************************************************)
(* C15.  A commit is accepted (the cell returns to display) exactly when:  *)
(* on name and language, the value has a character that is not            *)
(* whitespace; on state, the value is two uppercase letters with nothing   *)
(* but whitespace around them ("ca" rejected, "CA" accepted); on bio and   *)
(* the select column, always.  An accepted commit puts the value in the    *)
(* edit cache under the row and the column.                                *)
(***************************************************************************)
NonBlank(v) == \E i \in 1..Len(v) : ~IsSpace(SubSeq(v, i, i))

PaddedRegionCode(v) ==
  \E i \in 1..(Len(v) - 1) :
    /\ SubSeq(v, i, i) \in Uppercase
    /\ SubSeq(v, i + 1, i + 1) \in Uppercase
    /\ \A j \in (1..Len(v)) \ {i, i + 1} : IsSpace(SubSeq(v, j, j))

ShouldAccept(columnKey, v) ==
  CASE columnKey \in {"name", "language"} -> NonBlank(v)
    [] columnKey = "state" -> PaddedRegionCode(v)
    [] columnKey \in {"bio", "version"} -> TRUE

C15_ValidatorsDecideCommit ==
  [][ commit =>
        /\ ~cell'.editing <=> ShouldAccept(cell.columnKey, cell.value)
        /\ ~cell'.editing =>
             /\ cell.rowId \in DOMAIN editCache'
             /\ cell.columnKey \in DOMAIN editCache'[cell.rowId]
             /\ editCache'[cell.rowId][cell.columnKey] = cell.value
        /\ ~Validate("state", "ca")
        /\ Validate("state", "CA") ]_vars

\* a padded name went into the edit cache, and a state cell then refused a
\* lowercase code
C15_Witness ==
  /\ \E rk \in DOMAIN lastSet : rk[2] = "name" /\ lastSet[rk] = " Ann"
  /\ cell.editing
  /\ cell.columnKey = "state"
  /\ cell.value = "ca"
  /\ cell.error = ErrorMessage("state")

(***************************************************************************)
(* C16.  Cancel puts the cell (text or select) back in display with no     *)
(* message and with the input holding the value of its row: the value last *)
(* committed to that field if one was, and the value the edit cache holds  *)
(* for it if it holds one.  The edit cache, the stored blob and the        *)
(* Visible Page are unchanged.                                             *)
(***************************************************************************)
C16_CancelRestoresCell ==
  [][ cancel =>
        /\ ~cell'.editing
        /\ cell'.error = ""
        /\ \E k \in 1..Len(data) :
             data[k].id = cell.rowId /\ cell'.value = data[k][cell.columnKey]
        /\ <<cell.rowId, cell.columnKey>> \in DOMAIN lastSet =>
             cell'.value = lastSet[<<cell.rowId, cell.columnKey>>]
        /\ cell.columnKey \in DOMAIN CacheEntry(editCache, cell.rowId) =>
             cell'.value = editCache[cell.rowId][cell.columnKey]
        /\ editCache' = editCache
        /\ storage' = storage
        /\ data' = data ]_vars

\* a cell of a field that no commit of this session has set is back in
\* display showing the value the stored mapping holds for it, while another
\* field of the row was committed: only cancel leaves a cell so
C16_Witness ==
  /\ ~cell.editing
  /\ cell.rowId # ""
  /\ <<cell.rowId, cell.columnKey>> \notin DOMAIN lastSet
  /\ cell.columnKey \in DOMAIN CacheEntry(editCache, cell.rowId)
  /\ cell.value = editCache[cell.rowId][cell.columnKey]
  /\ \E rk \in DOMAIN lastSet : rk[1] = cell.rowId

(***************************************************************************)
(* C17.  The mapper is a function of the record and its index alone: when  *)
(* a later fetch maps the same remote array again, every record it stores  *)
(* equals, field for field, the record the earlier fetch stored.           *)
(* createdDate is computed from Date.now(), so the records mapped after    *)
(* the clock has advanced carry another timestamp.                         *)
(***************************************************************************)
C17_MapperIsPure ==
  [][ (writes >= 1 /\ writes' = writes + 1) => allRows' = allRows ]_vars

(***************************************************************************)
(* C18.  applyEdits over the fetched records, with the edit cache of the   *)
(* moment: the result has the same length and the same ids in the same     *)
(* order; each record has the fields of its entry at the entry's values    *)
(* and every other field as it was; a record without an entry comes out    *)
(* equal; and applying it to its own result changes nothing.               *)
(***************************************************************************)
C18_ApplyEditsLaws ==
  LET out == applyEdits(editCache, allRows) IN
  /\ Len(out) = Len(allRows)
  /\ \A k \in 1..Len(allRows) :
       LET r == allRows[k]
           e == CacheEntry(editCache, r.id)
       IN /\ out[k].id = r.id
          /\ DOMAIN out[k] = DOMAIN r \cup DOMAIN e
          /\ \A g \in DOMAIN e : out[k][g] = e[g]
          /\ \A g \in DOMAIN r \ DOMAIN e : out[k][g] = r[g]
          /\ r.id \notin DOMAIN editCache => out[k] = r
  /\ applyEdits(editCache, out) = out

\* a re-issued fetch has stored the first page through applyEdits with an
\* edit cache that overrides fields of some of its records and not of others
C18_Witness ==
  /\ writes >= 2
  /\ fetches = {}
  /\ lastSet # <<>>
  /\ data = applyEdits(editCache, Slice(allRows, 0, PAGE_SIZE))
  /\ \E k \in 1..Len(data) :
       /\ data[k].id \in DOMAIN editCache
       /\ data[k] # allRows[k]
  /\ \E j \in 1..Len(data) : data[j].id \notin DOMAIN editCache

(***************************************************************************)
(* C19.  The rows of the Visible Page have pairwise distinct ids.          *)
(* addNewRow builds the id as "new-" followed by Date.now(): two rows      *)
(* added while the clock shows the same millisecond get the same id.       *)
(***************************************************************************)
C19_VisibleIdsDistinct ==
  \A i \in 1..Len(data) : \A j \in 1..Len(data) :
    i # j => data[i].id # data[j].id

(***************************************************************************)
(* C20.  In a session that started with an empty edit cache, every value   *)
(* a commit has written for the state field is two uppercase letters and   *)
(* nothing else, in the edit cache and in the rows of the Visible Page.    *)
(* The validator tests value.trim() while commit passes value itself to    *)
(* updateCell, so " CA " is accepted and stored with its spaces.           *)
(***************************************************************************)
StartedEmpty ==
  \A r \in DOMAIN editCache : \E rk \in DOMAIN lastSet : rk[1] = r

C20_StoredRegionCodeIsBare ==
  StartedEmpty =>
    \A rk \in DOMAIN lastSet :
      rk[2] = "state" =>
        /\ TwoUppercase(lastSet[rk])
        /\ TwoUppercase(editCache[rk[1]]["state"])
        /\ \A k \in 1..Len(data) :
             data[k].id = rk[1] => TwoUppercase(data[k]["state"])
====
